---- MODULE Spec2Model ----
(***************************************************************************)
(* Model of the SCOA dashboard data collector: the collection orchestrator *)
(* (src/services/data-collector/src/data_collector.py), its process entry  *)
(* (main.py) and the adapter contract (src/exchanges/base_exchange.py).    *)
(*                                                                         *)
(* The program runs on one asyncio event loop.  A task runs without        *)
(* interruption from one suspension point (an await that really waits: a   *)
(* timer, an executor job, a throttled adapter call) to the next, so each  *)
(* action below is one such run of one task.  Another task can only run    *)
(* while the main task is suspended (MainSuspended).                       *)
(***************************************************************************)
EXTENDS Integers, Sequences, FiniteSets, TLC

\* ------------------------------------------------------------- bounds
\* The sleep between two rounds ends only while the two collection counters
\* can still grow by one round without passing this cap.
MaxCollections == 2
\* How many times a caller other than start() itself invokes
\* DataCollector.stop() while the collector runs.
MaxExternalStops == 1

\* ------------------------------------------------------ configuration
\* The exchanges section of the configuration, in file order.  "okx" stands
\* for an exchange name _create_exchange does not know.
ExchangeOrder == <<"binance", "htx", "okx">>

ExchangeNames == {ExchangeOrder[i] : i \in 1..Len(ExchangeOrder)}

KnownExchangeTypes == {"binance", "htx"}

\* The four sub-collections of one exchange, in the order of the task list.
SubOrder == <<"balance", "market", "trades", "portfolio">>

Subs == {SubOrder[i] : i \in 1..Len(SubOrder)}

\* One exchange's configuration entry: the three fields is_enabled() reads.
ExchangeConfigs ==
    { [enabled |-> FALSE, api_key |-> "key", api_secret |-> "secret"],
      [enabled |-> TRUE,  api_key |-> "key", api_secret |-> "secret"],
      [enabled |-> TRUE,  api_key |-> "key", api_secret |-> ""] }

Configs ==
    { c \in [ExchangeNames -> ExchangeConfigs] :
        c["okx"] = [enabled |-> TRUE, api_key |-> "key", api_secret |-> "secret"] }

VARIABLES
    cfg,          \* Config: exchange name -> its configuration entry
    exchanges,    \* DataCollector.exchanges: the active adapters, in insertion order
    running,      \* DataCollector.running
    dashRunning,  \* ScoaDashboard.running
    stats,        \* DataCollector.stats: the two collection counters
    mainPc,       \* where the main task (main() -> start()) stands
    initIdx,      \* initialize(): index of the next enabled exchange
    initOk,       \* the exchanges whose adapter was built and whose initialize() returned True
    exTask,       \* the per-exchange task of the round in flight
    sub,          \* the four sub-collections of each per-exchange task
    pnlIdx,       \* _collect_strategy_pnl(): index of the exchange being valued
    healthPc,     \* where the health-check task stands
    closeCalls,   \* per adapter: how many times close() has been called
    closeRaised,  \* the adapters whose close() raised in the latest stop()
    extStops,     \* stop() calls made by a caller other than start()/main()
    exitCode,     \* the process exit status, -1 while the process runs
    \* one adapter and its throttle, seen from the tasks of one round
    now,                \* time.time(), in ticks
    last_request_time,  \* BaseExchange._last_request_time: a dict, empty or with the key "last"
    connected,          \* the adapter's initialize() has run its connectivity test
    thPc,               \* where each sub-collection task stands in its adapter call
    wakeAt,             \* per task: when its asyncio.sleep in rate_limit_check ends
    throttleLog,        \* the releases of rate_limit_check and the requests sent, in order
    \* one call of a function of an adapter
    call,               \* the function called and its arguments
    ret,                \* what the call returned or raised, once it has
    \* the calculator
    price_history,      \* ArbitrageCalculator.price_history
    pnl_history         \* ArbitrageCalculator.pnl_history

\* The variables of the single adapter, of the single call and of the
\* calculator: the orchestrator's actions leave them alone.
throttleVars == <<now, last_request_time, connected, thPc, wakeAt, throttleLog>>

callVars == <<call, ret>>

calcVars == <<price_history, pnl_history>>

unitVars == <<throttleVars, callVars, calcVars>>

\* The variables of the orchestrator and the process
orchVars == <<cfg, exchanges, running, dashRunning, stats, mainPc, initIdx, initOk,
              exTask, sub, pnlIdx, healthPc, closeCalls, closeRaised, extStops,
              exitCode>>

vars == <<cfg, exchanges, running, dashRunning, stats, mainPc, initIdx, initOk,
          exTask, sub, pnlIdx, healthPc, closeCalls, closeRaised, extStops,
          exitCode, unitVars>>

\* ------------------------------------------------------------ helpers
Range(s) == {s[i] : i \in 1..Len(s)}

\* Config.get_enabled_exchanges
GetEnabledExchanges(c) == SelectSeq(ExchangeOrder, LAMBDA e : c[e].enabled)

\* dict.get(key, default) where the dict is a record of optional fields: a
\* field is <<>> when the key is absent and <<v>> when it holds the value v.
DictGet(field, default) == IF field = <<>> THEN default ELSE field[1]

\* BaseExchange.__init__: the fields is_enabled() reads, with their defaults
BaseExchangeInit(config) ==
    [enabled    |-> DictGet(config.enabled, FALSE),
     api_key    |-> DictGet(config.api_key, ""),
     api_secret |-> DictGet(config.api_secret, "")]

\* Mutant of IsEnabled: one non-empty credential is enough.
IsEnabledEitherCredential(c) == c.enabled /\ (c.api_key # "" \/ c.api_secret # "")

\* BaseExchange.is_enabled
IsEnabled(c) == c.enabled /\ c.api_key # "" /\ c.api_secret # ""

\* Mutant of CreateExchange: an adapter is built for any exchange name.
CreateExchangeAnyName(name, ctor) == IF ctor = "ok" THEN "adapter" ELSE "none"

\* DataCollector._create_exchange: the adapter, or None
CreateExchange(name, ctor) ==
    IF name \in KnownExchangeTypes /\ ctor = "ok" THEN "adapter" ELSE "none"

\* The main task is suspended in an await that really waits, so the event
\* loop can run another task.
MainSuspended == mainPc \in {"gather", "pnl", "sleep"}

NoTasks == [e \in ExchangeNames |-> "none"]

NoSubs == [e \in ExchangeNames |-> [k \in Subs |-> "none"]]

\* The adapter-level, call-level and calculator variables at rest
ThrottleAt(time) ==
    /\ now = time
    /\ last_request_time = <<>>
    /\ connected = FALSE
    /\ thPc = [k \in Subs |-> [at |-> "idle", callIdx |-> 0]]
    /\ wakeAt = [k \in Subs |-> 0]
    /\ throttleLog = <<>>

ThrottleIdle == ThrottleAt(0)

CallIdle == call = [fn |-> "none"] /\ ret = [status |-> "none"]

CalcIdle == price_history = <<>> /\ pnl_history = <<>>

\* ----------------------------------------------------------------- Init
\* The orchestrator and the process before main() has done anything
OrchIdle ==
    /\ exchanges = <<>>
    /\ running = FALSE
    /\ dashRunning = FALSE
    /\ stats = [collections_completed |-> 0, collections_failed |-> 0]
    /\ mainPc = "boot"
    /\ initIdx = 0
    /\ initOk = {}
    /\ exTask = NoTasks
    /\ sub = NoSubs
    /\ pnlIdx = 0
    /\ healthPc = "none"
    /\ closeCalls = [e \in ExchangeNames |-> 0]
    /\ closeRaised = {}
    /\ extStops = 0
    /\ exitCode = -1

Init ==
    /\ cfg \in Configs
    /\ OrchIdle
    /\ ThrottleIdle
    /\ CallIdle
    /\ CalcIdle

\* ------------------------------------------------------- initialization
\* ScoaDashboard.initialize up to the call of DataCollector.initialize
DashboardInitialize ==
    /\ mainPc = "boot"
    /\ mainPc' = "initialize"
    /\ initIdx' = 1
    /\ UNCHANGED <<unitVars, cfg, exchanges, running, dashRunning, stats, initOk, exTask,
                   sub, pnlIdx, healthPc, closeCalls, closeRaised, extStops,
                   exitCode>>

\* One pass of the loop of DataCollector.initialize: construct the adapter
\* and initialize it; it joins the active set only if both succeed.
InitializeExchange ==
    /\ mainPc = "initialize"
    /\ initIdx <= Len(GetEnabledExchanges(cfg))
    /\ \E ctor \in {"ok", "raise"}, ok \in BOOLEAN :
         LET name == GetEnabledExchanges(cfg)[initIdx]
             exchange == CreateExchange(name, ctor)
         IN  /\ exchanges' = IF exchange # "none" /\ ok
                             THEN Append(exchanges, name)
                             ELSE exchanges
             /\ initOk' = IF exchange # "none" /\ ok
                          THEN initOk \cup {name}
                          ELSE initOk
    /\ initIdx' = initIdx + 1
    /\ UNCHANGED <<unitVars, cfg, running, dashRunning, stats, mainPc, exTask, sub,
                   pnlIdx, healthPc, closeCalls, closeRaised, extStops, exitCode>>

\* Mutant of InitializeFails: any enabled exchange that is missing from the
\* adapter set makes initialize() fail.
InitializeFailsIfAnyMissing(exs) == Len(exs) < Len(GetEnabledExchanges(cfg))

\* Mutant of InitializeFails: initialize() returns normally with any adapter
\* set, the empty one included.
InitializeFailsNever(exs) == FALSE

\* `if not self.exchanges: raise`: an adapter set that makes initialize() fail
InitializeFails(exs) == exs = <<>>

\* The end of DataCollector.initialize: it raises with no adapter, and then
\* ScoaDashboard.initialize returns False and main() exits with status 1.
InitializeFinish ==
    /\ mainPc = "initialize"
    /\ initIdx > Len(GetEnabledExchanges(cfg))
    /\ IF InitializeFails(exchanges)
       THEN mainPc' = "exited" /\ exitCode' = 1
       ELSE mainPc' = "initialized" /\ exitCode' = exitCode
    /\ UNCHANGED <<unitVars, cfg, exchanges, running, dashRunning, stats, initIdx, initOk, exTask,
                   sub, pnlIdx, healthPc, closeCalls, closeRaised, extStops>>

\* ScoaDashboard.start and DataCollector.start up to the loop's first check:
\* running is set and the health-check task is created.
DashboardStart ==
    /\ mainPc = "initialized"
    /\ dashRunning' = TRUE
    /\ running' = TRUE
    /\ healthPc' = "sleep"
    /\ mainPc' = "loop"
    /\ UNCHANGED <<unitVars, cfg, exchanges, stats, initIdx, initOk, exTask, sub, pnlIdx,
                   closeCalls, closeRaised, extStops, exitCode>>

\* ------------------------------------------------------ collection round
\* Mutant of RoundStart: the loop of start() tests running after the round,
\* not before it.
RoundStartUnchecked ==
    /\ mainPc = "loop"
    /\ exTask' = [e \in ExchangeNames |->
                    IF e \in Range(exchanges)
                    THEN (IF IsEnabled(cfg[e]) THEN "gathering" ELSE "false")
                    ELSE "none"]
    /\ sub' = [e \in ExchangeNames |-> [k \in Subs |->
                    IF e \in Range(exchanges) /\ IsEnabled(cfg[e])
                    THEN "fetch" ELSE "none"]]
    /\ mainPc' = "gather"
    /\ UNCHANGED <<unitVars, cfg, exchanges, running, dashRunning, stats, initIdx, initOk,
                   pnlIdx, healthPc, closeCalls, closeRaised, extStops, exitCode>>

\* `while self.running:` holds; _collect_data_round creates one task per
\* active adapter and each task runs to its first await: a task whose
\* adapter is not enabled returns False at once, the others start their four
\* sub-collections and wait for them.
RoundStart ==
    /\ mainPc = "loop"
    /\ running
    /\ exTask' = [e \in ExchangeNames |->
                    IF e \in Range(exchanges)
                    THEN (IF IsEnabled(cfg[e]) THEN "gathering" ELSE "false")
                    ELSE "none"]
    /\ sub' = [e \in ExchangeNames |-> [k \in Subs |->
                    IF e \in Range(exchanges) /\ IsEnabled(cfg[e])
                    THEN "fetch" ELSE "none"]]
    /\ mainPc' = "gather"
    /\ UNCHANGED <<unitVars, cfg, exchanges, running, dashRunning, stats, initIdx, initOk,
                   pnlIdx, healthPc, closeCalls, closeRaised, extStops, exitCode>>

\* What an adapter fetch can give a sub-collection: data, nothing, an error
FetchOutcomes == {"data", "empty", "error"}

\* What the sink write of the fetched data can do; the sink swallows errors
WriteOutcomes == {"ok", "error"}

\* Mutant of SubResult: a sink write that fails makes the sub-collection
\* fail.
SubResultNeedsWrite(fetch, write) ==
    IF fetch = "data" /\ write = "ok" THEN "ok" ELSE "fail"

\* _collect_balance_data .. _collect_portfolio_data: True exactly when the
\* fetch returned data (the write is then awaited and its failure swallowed);
\* an empty result and an adapter error both give False.
SubResult(fetch, write) == IF fetch = "data" THEN "ok" ELSE "fail"

\* One sub-collection runs from its adapter call to its return.
SubCollect(e, k) ==
    /\ MainSuspended
    /\ exTask[e] = "gathering"
    /\ sub[e][k] = "fetch"
    /\ \E fetch \in FetchOutcomes, write \in WriteOutcomes :
         sub' = [sub EXCEPT ![e][k] = SubResult(fetch, write)]
    /\ UNCHANGED <<unitVars, cfg, exchanges, running, dashRunning, stats, mainPc, initIdx,
                   initOk, exTask, pnlIdx, healthPc, closeCalls, closeRaised, extStops,
                   exitCode>>

\* Mutant of SubsJoined: the wait ends at the first sub-collection that failed.
SubsJoinedUntilFailure(e) ==
    \/ \E k \in Subs : sub[e][k] = "fail"
    \/ \A k \in Subs : sub[e][k] \in {"ok", "fail"}

\* asyncio.gather(*tasks, return_exceptions=True) over the sub-collections
\* returns when every one of them has finished.
SubsJoined(e) == \A k \in Subs : sub[e][k] \in {"ok", "fail"}

\* Mutant of ExchangeResult: only a full success counts.
ExchangeResultAllOrNothing(successful, total) == successful = total

\* The return value of _collect_exchange_data after the gather
ExchangeResult(successful, total) ==
    IF successful = total THEN TRUE ELSE successful > 0

\* _collect_exchange_data after its gather: count and return.  The results
\* of the sub-collections live until the round's own gather has returned.
ExchangeJoin(e) ==
    /\ MainSuspended
    /\ exTask[e] = "gathering"
    /\ SubsJoined(e)
    /\ LET successful == Cardinality({k \in Subs : sub[e][k] = "ok"})
       IN  exTask' = [exTask EXCEPT ![e] =
                        IF ExchangeResult(successful, Cardinality(Subs))
                        THEN "true" ELSE "false"]
    /\ UNCHANGED <<unitVars, cfg, exchanges, running, dashRunning, stats, mainPc, initIdx,
                   initOk, sub, pnlIdx, healthPc, closeCalls, closeRaised,
                   extStops, exitCode>>

\* Mutant of TasksJoined: the wait ends when the first task has finished.
TasksJoinedFirstCompleted ==
    \E e \in Range(exchanges) : exTask[e] \in {"true", "false"}

\* Mutant of TasksJoined: the tasks are created and not waited for.
TasksJoinedNoWait == TRUE

\* asyncio.gather(*tasks, return_exceptions=True) over the per-exchange tasks
\* returns when every one of them has finished.
TasksJoined == \A e \in Range(exchanges) : exTask[e] \in {"true", "false"}

\* Mutant of RoundJoin: a round with failures adds one to collections_failed,
\* however many exchanges failed.
RoundJoinFailedOnce ==
    /\ mainPc = "gather"
    /\ TasksJoined
    /\ LET successful == Cardinality({e \in Range(exchanges) : exTask[e] = "true"})
           failed == IF \E e \in Range(exchanges) : exTask[e] = "false" THEN 1 ELSE 0
       IN  stats' = [collections_completed |->
                        stats.collections_completed + successful,
                     collections_failed |-> stats.collections_failed + failed]
    /\ exTask' = [e \in ExchangeNames |->
                    IF exTask[e] \in {"true", "false"} THEN "none" ELSE exTask[e]]
    /\ sub' = [e \in ExchangeNames |->
                 IF exTask[e] = "gathering" THEN sub[e] ELSE [k \in Subs |-> "none"]]
    /\ mainPc' = "pnl"
    /\ pnlIdx' = 1
    /\ UNCHANGED <<unitVars, cfg, exchanges, running, dashRunning, initIdx, initOk,
                   healthPc, closeCalls, closeRaised, extStops, exitCode>>

\* _collect_data_round after its gather: tally the results into the stats
\* and enter the strategy-PnL pass, which suspends in its first valuation.
RoundJoin ==
    /\ mainPc = "gather"
    /\ TasksJoined
    /\ LET successful == Cardinality({e \in Range(exchanges) : exTask[e] = "true"})
           failed == Cardinality({e \in Range(exchanges) : exTask[e] # "none"})
                       - successful
       IN  stats' = [collections_completed |->
                        stats.collections_completed + successful,
                     collections_failed |-> stats.collections_failed + failed]
    /\ exTask' = [e \in ExchangeNames |->
                    IF exTask[e] \in {"true", "false"} THEN "none" ELSE exTask[e]]
    /\ sub' = [e \in ExchangeNames |->
                 IF exTask[e] = "gathering" THEN sub[e] ELSE [k \in Subs |-> "none"]]
    /\ mainPc' = "pnl"
    /\ pnlIdx' = 1
    /\ UNCHANGED <<unitVars, cfg, exchanges, running, dashRunning, initIdx, initOk,
                   healthPc, closeCalls, closeRaised, extStops, exitCode>>

\* What get_portfolio_value gives the strategy-PnL pass
PnlOutcomes == {"positive", "zero", "error"}

\* Mutant of PnlStep: a valuation that fails ends the collector's run.
PnlStepStopsOnFailure ==
    /\ mainPc = "pnl"
    /\ \E outcome \in PnlOutcomes, write \in WriteOutcomes :
         /\ running' = (running /\ outcome # "error")
         /\ IF pnlIdx < Len(exchanges)
            THEN /\ pnlIdx' = pnlIdx + 1
                 /\ mainPc' = mainPc
            ELSE /\ pnlIdx' = 0
                 /\ mainPc' = IF running' THEN "sleep" ELSE "loop"
    /\ UNCHANGED <<unitVars, cfg, exchanges, dashRunning, stats, initIdx, initOk, exTask,
                   sub, healthPc, closeCalls, closeRaised, extStops, exitCode>>

\* One pass of the loop of _collect_strategy_pnl: value one exchange and
\* write its point if the value is positive.  After the last exchange the
\* round is over and start() sleeps if it is still running.
PnlStep ==
    /\ mainPc = "pnl"
    /\ \E outcome \in PnlOutcomes, write \in WriteOutcomes :
         IF pnlIdx < Len(exchanges)
         THEN /\ pnlIdx' = pnlIdx + 1
              /\ mainPc' = mainPc
         ELSE /\ pnlIdx' = 0
              /\ mainPc' = IF running THEN "sleep" ELSE "loop"
    /\ UNCHANGED <<unitVars, cfg, exchanges, running, dashRunning, stats, initIdx, initOk, exTask,
                   sub, healthPc, closeCalls, closeRaised, extStops, exitCode>>

\* asyncio.sleep(collection_interval) returns: back to the loop's check.
\* The timer fires only while the counters have room for one more round.
SleepWake ==
    /\ mainPc = "sleep"
    /\ stats.collections_completed + stats.collections_failed + Len(exchanges)
         <= MaxCollections
    /\ mainPc' = "loop"
    /\ UNCHANGED <<unitVars, cfg, exchanges, running, dashRunning, stats, initIdx, initOk, exTask,
                   sub, pnlIdx, healthPc, closeCalls, closeRaised, extStops,
                   exitCode>>

\* ----------------------------------------------------------------- stop
\* Which adapters' close() raises in one stop(): none of them, or the first
\* one, which is the one whose failure could cut the loop short.
CloseRaisers(exs) == {{}} \cup {{exs[i]} : i \in {j \in 1..Len(exs) : j = 1}}

\* Mutant of CloseAll: the first close() that raises ends the loop.
CloseUntilRaise(calls, exs, raisers) ==
    [e \in ExchangeNames |->
        IF \E i \in 1..Len(exs) :
              exs[i] = e /\ \A j \in 1..(i - 1) : exs[j] \notin raisers
        THEN calls[e] + 1 ELSE calls[e]]

\* The loop of stop(): close() is called on every adapter; one that raises
\* is logged and the loop goes on.
CloseAll(calls, exs, raisers) ==
    [e \in ExchangeNames |-> IF e \in Range(exs) THEN calls[e] + 1 ELSE calls[e]]

\* `while self.running:` fails; the finally clause of start() cancels the
\* health-check task and runs stop().
StartCleanup ==
    /\ mainPc = "loop"
    /\ ~running
    /\ healthPc' = IF healthPc \in {"sleep", "write"} THEN "cancelled" ELSE healthPc
    /\ running' = FALSE
    /\ \E raisers \in CloseRaisers(exchanges) :
         /\ closeCalls' = CloseAll(closeCalls, exchanges, raisers)
         /\ closeRaised' = raisers
    /\ mainPc' = "start_returned"
    /\ UNCHANGED <<unitVars, cfg, exchanges, dashRunning, stats, initIdx, initOk, exTask, sub,
                   pnlIdx, extStops, exitCode>>

\* DataCollector.stop() called by another task while the main task waits.
ExternalStop ==
    /\ MainSuspended
    /\ extStops < MaxExternalStops
    /\ running' = FALSE
    /\ \E raisers \in CloseRaisers(exchanges) :
         /\ closeCalls' = CloseAll(closeCalls, exchanges, raisers)
         /\ closeRaised' = raisers
    /\ extStops' = extStops + 1
    /\ UNCHANGED <<unitVars, cfg, exchanges, dashRunning, stats, mainPc, initIdx, initOk, exTask,
                   sub, pnlIdx, healthPc, exitCode>>

\* main()'s finally clause: ScoaDashboard.stop calls DataCollector.stop()
\* again and closes the sink; the process then exits with status 0.
DashboardStop ==
    /\ mainPc = "start_returned"
    /\ dashRunning' = FALSE
    /\ running' = FALSE
    /\ \E raisers \in CloseRaisers(exchanges) :
         /\ closeCalls' = CloseAll(closeCalls, exchanges, raisers)
         /\ closeRaised' = raisers
    /\ mainPc' = "exited"
    /\ exitCode' = 0
    /\ UNCHANGED <<unitVars, cfg, exchanges, stats, initIdx, initOk, exTask, sub, pnlIdx,
                   healthPc, extStops>>

\* ScoaDashboard.handle_signal, run by the interpreter on SIGINT or SIGTERM
HandleSignal ==
    /\ mainPc # "exited"
    /\ dashRunning' = FALSE
    /\ UNCHANGED <<unitVars, cfg, exchanges, running, stats, mainPc, initIdx, initOk, exTask, sub,
                   pnlIdx, healthPc, closeCalls, closeRaised, extStops, exitCode>>

\* --------------------------------------------------------- health check
\* Mutant of HealthTickRuns: the tick does not look at the running flag.
HealthTickAlways == TRUE

\* `if self.running:` after the sleep of _health_check_loop
HealthTickRuns == running

\* What _get_memory_usage can do: a value, ImportError, another error
MemoryOutcomes == {"value", "import_error", "other_error"}

\* The sleep of _health_check_loop returns.  If the collector still runs the
\* tick gathers its metrics and issues the sink write, in which it waits; an
\* error other than ImportError from the memory probe skips the write.
HealthWake ==
    /\ MainSuspended
    /\ healthPc = "sleep"
    /\ \E mem \in MemoryOutcomes :
         healthPc' = IF HealthTickRuns
                     THEN (IF mem = "other_error"
                           THEN (IF running THEN "sleep" ELSE "exited")
                           ELSE "write")
                     ELSE "exited"
    /\ UNCHANGED <<unitVars, cfg, exchanges, running, dashRunning, stats, mainPc, initIdx,
                   initOk, exTask, sub, pnlIdx, closeCalls, closeRaised, extStops,
                   exitCode>>

\* The sink write of the health metrics returns: `while self.running:`.
HealthWriteDone ==
    /\ MainSuspended
    /\ healthPc = "write"
    /\ healthPc' = IF running THEN "sleep" ELSE "exited"
    /\ UNCHANGED <<unitVars, cfg, exchanges, running, dashRunning, stats, mainPc, initIdx,
                   initOk, exTask, sub, pnlIdx, closeCalls, closeRaised, extStops,
                   exitCode>>

\* The cancelled health-check task receives CancelledError and breaks out.
HealthCancelled ==
    /\ healthPc = "cancelled"
    /\ healthPc' = "exited"
    /\ UNCHANGED <<unitVars, cfg, exchanges, running, dashRunning, stats, mainPc, initIdx,
                   initOk, exTask, sub, pnlIdx, closeCalls, closeRaised, extStops,
                   exitCode>>

\* ----------------------------------------------------------------- Next
SubCollectSome == \E e \in ExchangeNames, k \in Subs : SubCollect(e, k)

ExchangeJoinSome == \E e \in ExchangeNames : ExchangeJoin(e)

Next ==
    \/ DashboardInitialize
    \/ InitializeExchange
    \/ InitializeFinish
    \/ DashboardStart
    \/ RoundStart
    \/ SubCollectSome
    \/ ExchangeJoinSome
    \/ RoundJoin
    \/ PnlStep
    \/ SleepWake
    \/ StartCleanup
    \/ ExternalStop
    \/ DashboardStop
    \/ HandleSignal
    \/ HealthWake
    \/ HealthWriteDone
    \/ HealthCancelled

Spec == Init /\ [][Next]_vars

\* Every task of the event loop that can run does run; the environment
\* (signals, callers of stop()) owes nothing.
FairSpec ==
    /\ Spec
    /\ WF_vars(DashboardInitialize)
    /\ WF_vars(InitializeExchange)
    /\ WF_vars(InitializeFinish)
    /\ WF_vars(DashboardStart)
    /\ WF_vars(RoundStart)
    /\ WF_vars(SubCollectSome)
    /\ WF_vars(ExchangeJoinSome)
    /\ WF_vars(RoundJoin)
    /\ WF_vars(PnlStep)
    /\ WF_vars(SleepWake)
    /\ WF_vars(StartCleanup)
    /\ WF_vars(DashboardStop)
    /\ WF_vars(HealthWake)
    /\ WF_vars(HealthWriteDone)
    /\ WF_vars(HealthCancelled)

\* ------------------------------------------------------------ properties
\* DataCollector.initialize() has returned or raised.
InitializeReturned == mainPc \notin {"boot", "initialize"}

\* C1: initialize() fails (and the process exits with status 1) exactly when
\* no adapter was built and initialized successfully; with at least one it
\* succeeds, however many other enabled exchanges failed.
C1_InitializeFailsIffNoAdapter ==
    InitializeReturned => (exitCode = 1 <=> initOk = {})

\* initialize() has succeeded with one adapter although three exchanges
\* were enabled: the two others failed.
C1_Witness ==
    /\ mainPc = "initialized"
    /\ Cardinality(initOk) = 1
    /\ Len(GetEnabledExchanges(cfg)) = 3

\* C2: a finished per-exchange task reports success exactly when at least
\* one of its four sub-collections succeeded, and failure exactly when all
\* four failed or the adapter is not enabled.
C2_ExchangeSuccessIffAnySub ==
    \A e \in ExchangeNames :
        /\ exTask[e] = "true" =>
              /\ IsEnabled(cfg[e])
              /\ \E k \in Subs : sub[e][k] = "ok"
        /\ exTask[e] = "false" =>
              \/ ~IsEnabled(cfg[e])
              \/ \A k \in Subs : sub[e][k] = "fail"

\* A task reported success with the balances collected and the three other
\* sub-collections failed.
C2_Witness ==
    \E e \in ExchangeNames :
        /\ exTask[e] = "true"
        /\ sub[e]["balance"] = "ok"
        /\ \A k \in Subs \ {"balance"} : sub[e][k] = "fail"

\* No part of a collection round exists.
RoundIdle ==
    /\ \A e \in ExchangeNames : exTask[e] = "none"
    /\ \A e \in ExchangeNames, k \in Subs : sub[e][k] = "none"
    /\ pnlIdx = 0

\* C3: rounds never overlap: whenever start() is not inside
\* _collect_data_round (so also each time it is about to begin a round),
\* every per-exchange task, every sub-collection and the strategy-PnL pass
\* of the earlier rounds have completed.
C3_RoundsNeverOverlap == mainPc \notin {"gather", "pnl"} => RoundIdle

\* A second round is in flight after the first one was tallied.
C3_Witness ==
    /\ mainPc = "gather"
    /\ stats.collections_completed + stats.collections_failed >= 1
    /\ \E e \in ExchangeNames : sub[e]["trades"] = "fetch"

\* C4: while the strategy-PnL pass runs, every per-exchange task of the
\* round has finished and been collected, and no sub-collection is left.
C4_PnlAfterJoin ==
    mainPc = "pnl" =>
        /\ \A e \in ExchangeNames : exTask[e] = "none"
        /\ \A e \in ExchangeNames, k \in Subs : sub[e][k] = "none"

\* The strategy-PnL pass is valuing the second of two adapters, after a
\* round in which one task succeeded and one failed.
C4_Witness ==
    /\ mainPc = "pnl"
    /\ pnlIdx = 2
    /\ stats.collections_completed = 1
    /\ stats.collections_failed = 1

\* C5: a failed sub-collection or exchange stops no sibling: a per-exchange
\* task of an enabled adapter finishes only when all four of its
\* sub-collections have reached their own outcome, and while the round waits
\* for its tasks some step of the round can always be taken.
C5_FailureStopsNoSibling ==
    /\ \A e \in ExchangeNames :
          (exTask[e] \in {"true", "false"} /\ IsEnabled(cfg[e])) =>
              \A k \in Subs : sub[e][k] \in {"ok", "fail"}
    /\ mainPc = "gather" =>
          ENABLED (SubCollectSome \/ ExchangeJoinSome \/ RoundJoin)

\* One exchange failed in all four sub-collections; on the other the
\* balances failed and the three siblings still succeeded.
C5_Witness ==
    /\ exTask["binance"] = "false"
    /\ \A k \in Subs : sub["binance"][k] = "fail"
    /\ exTask["htx"] = "true"
    /\ sub["htx"]["balance"] = "fail"
    /\ \A k \in Subs \ {"balance"} : sub["htx"][k] = "ok"

\* Some call of stop() has returned.
StopReturned ==
    \/ extStops > 0
    \/ mainPc = "start_returned"
    \/ mainPc = "exited" /\ exitCode = 0

\* C6: once stop() has returned, the health-check task issues no further
\* write of health metrics.
C6_NoHealthWriteAfterStopped ==
    [][(StopReturned /\ healthPc # "write") => healthPc' # "write"]_vars

\* stop() has returned while a health tick that had passed its running
\* check was waiting in its sink write.
C6_Witness ==
    /\ extStops > 0
    /\ healthPc = "write"

\* C7: a termination signal received while the collector runs leads to the
\* collector leaving Running (its loop ends and stop() is executed).
\* ScoaDashboard.running is false while DataCollector.running is true only
\* after handle_signal has run during Running.
C7_SignalLeadsToStop == (running /\ ~dashRunning) ~> ~running

\* This step is one call of DataCollector.stop(), from its entry to its
\* return: by another task, by the cleanup of start(), by ScoaDashboard.stop.
StopCallStep ==
    \/ extStops' = extStops + 1
    \/ mainPc = "loop" /\ mainPc' = "start_returned"
    \/ mainPc = "start_returned" /\ mainPc' = "exited"

\* Every active adapter has one more close() call after the step.
ClosesEveryAdapter ==
    \A e \in Range(exchanges) : closeCalls'[e] = closeCalls[e] + 1

C9_NoCloseWhileInUse ==
    \A e \in ExchangeNames :
        (\E k \in Subs : sub[e][k] = "fetch") => closeCalls[e] = 0

\* C10: the collector runs only after a successful initialize(), and the
\* shutdown path of the process (the cleanup of start() followed by
\* ScoaDashboard.stop) closes every adapter once: beyond the stop() calls of
\* other callers, an adapter sees one close() and no more.
C10_RunsAfterInitClosesOnce ==
    /\ running => (initOk # {} /\ mainPc \in {"loop", "gather", "pnl", "sleep"})
    /\ \A e \in Range(exchanges) : closeCalls[e] - extStops <= 1
    /\ exitCode = 0 => \A e \in Range(exchanges) : closeCalls[e] - extStops = 1

\* C11: when DataCollector.initialize() has failed (it ended with no
\* adapter), the process has exited with status 1 and start() was never
\* invoked: the collector is not running, no round is or was in flight, the
\* counters are untouched and the health-check task was never created.
C11_FatalInitNeverRuns ==
    (InitializeReturned /\ exchanges = <<>>) =>
        /\ mainPc = "exited"
        /\ exitCode = 1
        /\ ~running
        /\ ~dashRunning
        /\ healthPc = "none"
        /\ RoundIdle
        /\ stats = [collections_completed |-> 0, collections_failed |-> 0]

\* initialize() tried two enabled exchanges, neither gave an adapter, and
\* the process has exited with status 1.
C11_Witness ==
    /\ mainPc = "exited"
    /\ exitCode = 1
    /\ exchanges = <<>>
    /\ initIdx = 3
    /\ Len(GetEnabledExchanges(cfg)) = 2

\* C12: no collection call is made on an adapter whose is_enabled() is
\* false: not by a sub-collection of the per-exchange pass, and not by the
\* strategy-PnL pass, which is valuing exchanges[pnlIdx] while it runs.
C12_OnlyEnabledAdaptersCalled ==
    /\ \A e \in ExchangeNames :
          (\E k \in Subs : sub[e][k] # "none") => IsEnabled(cfg[e])
    /\ (mainPc = "pnl" /\ pnlIdx \in 1..Len(exchanges)) =>
          IsEnabled(cfg[exchanges[pnlIdx]])

\* =====================================================================
\* One adapter, one call: the functions of BaseExchange and of the Binance
\* adapter that compute a result from their arguments.  The call and its
\* arguments are drawn at the start; the action of the function applies it.

\* The values a credential field can hold in the configuration
CredentialValues == {"", "key", "secret"}

\* Configuration entries as the file gives them: each of the three keys is
\* absent or present with one of its values.
RawConfigs ==
    [enabled    : {<<>>, <<FALSE>>, <<TRUE>>},
     api_key    : {<<>>} \cup {<<v>> : v \in CredentialValues},
     api_secret : {<<>>} \cup {<<v>> : v \in CredentialValues}]

IsEnabledCalls == {[fn |-> "is_enabled", config |-> c] : c \in RawConfigs}

\* Construct the adapter from the entry and ask it is_enabled().
IsEnabledCall ==
    /\ call.fn = "is_enabled"
    /\ ret.status = "none"
    /\ ret' = [status |-> "returned",
               value |-> IsEnabled(BaseExchangeInit(call.config))]
    /\ UNCHANGED <<orchVars, throttleVars, calcVars, call>>

\* ----------------------------------------- BinanceExchange.get_account_balance
\* The assets of a fetch_balance response, in the order of its 'total' dict
BalanceAssets == <<"BTC", "USDT">>

\* The largest figure (an amount, in units) in a response or a balance
MaxFigure == 2

\* One figure of a response: absent for the asset, or a number
FigureOptions == {<<>>} \cup {<<n>> : n \in 0..MaxFigure}

\* What self._client.fetch_balance() gives: it raises, or it returns the
\* three dicts 'total', 'free' and 'used', which the exchange fills one by one.
BalanceResponses ==
    {[raises |-> TRUE]} \cup
    [raises : {FALSE},
     total  : [{"BTC", "USDT"} -> FigureOptions],
     free   : [{"BTC", "USDT"} -> FigureOptions],
     used   : [{"BTC", "USDT"} -> FigureOptions]]

\* The Balance dataclass: the constructor stores the four figures it is given.
Balance(asset, free, locked, total) ==
    [asset |-> asset, free |-> free, locked |-> locked, total |-> total]

\* get_account_balance after its throttle pass: one Balance per asset whose
\* total is a positive number, built from the three dicts; [] on any error.
GetAccountBalance(resp) ==
    IF resp.raises
    THEN <<>>
    ELSE LET held == SelectSeq(BalanceAssets,
                               LAMBDA a : resp.total[a] # <<>> /\ resp.total[a][1] > 0)
         IN  [i \in 1..Len(held) |->
                 Balance(held[i],
                         DictGet(resp.free[held[i]], 0),
                         DictGet(resp.used[held[i]], 0),
                         resp.total[held[i]][1])]

GetAccountBalanceCalls ==
    {[fn |-> "get_account_balance", response |-> r] : r \in BalanceResponses}

GetAccountBalanceCall ==
    /\ call.fn = "get_account_balance"
    /\ ret.status = "none"
    /\ ret' = [status |-> "returned", value |-> GetAccountBalance(call.response)]
    /\ UNCHANGED <<orchVars, throttleVars, calcVars, call>>

\* ------------------------------------------- BaseExchange.get_portfolio_value
\* Names are sequences of characters, so that upper(), endswith() and
\* replace() work on them as they do on Python strings.
UpperOf ==
    [b |-> "B", t |-> "T", c |-> "C", u |-> "U", s |-> "S", d |-> "D", f |-> "F"]

\* str.upper
Upper(str) ==
    [i \in 1..Len(str) |-> IF str[i] \in DOMAIN UpperOf THEN UpperOf[str[i]] ELSE str[i]]

\* str.endswith
EndsWith(str, suffix) ==
    /\ Len(str) >= Len(suffix)
    /\ SubSeq(str, Len(str) - Len(suffix) + 1, Len(str)) = suffix

\* str.replace(old, ''): every occurrence of old, found from the left and
\* not overlapping, is removed.
RECURSIVE Remove(_, _)
Remove(str, old) ==
    IF Len(str) < Len(old)
    THEN str
    ELSE IF SubSeq(str, 1, Len(old)) = old
         THEN Remove(SubSeq(str, Len(old) + 1, Len(str)), old)
         ELSE <<str[1]>> \o Remove(Tail(str), old)

USDT == <<"U", "S", "D", "T">>

BTC == <<"B", "T", "C">>

\* The asset names a balance can carry
AssetNames == {USDT, BTC, <<"b", "t", "c">>}

\* The totals a balance can carry
HeldAmounts == {0, 1, 2}

\* The symbols the adapter is configured with, in order; the last one is the
\* shape of symbol that replace() turns into the name USDT.
SymbolOrder ==
    <<BTC \o USDT,
      <<"b", "t", "c", "u", "s", "d", "t">>,
      <<"B", "T", "C", "U", "S", "D">>,
      <<"U", "S">> \o USDT \o <<"D", "T">> \o USDT>>

\* The prices a market-data entry can carry
PriceValues == {2, 3}

\* How many balances the adapter returns
MaxBalances == 2

\* The lists get_account_balance() can return to the valuer
BalanceLists ==
    UNION {[1..n -> {Balance(a, t, 0, t) : a \in AssetNames, t \in HeldAmounts}] :
             n \in 0..MaxBalances}

\* The lists get_market_data() can return to the valuer: for each symbol,
\* in order, no entry or one entry with a price.
MarketDataOf(tickers) ==
    LET present == SelectSeq([i \in 1..Len(SymbolOrder) |-> i],
                             LAMBDA i : tickers[i] # <<>>)
    IN  [k \in 1..Len(present) |->
            [symbol |-> SymbolOrder[present[k]], price |-> tickers[present[k]][1]]]

MarketDataLists ==
    {MarketDataOf(tickers) :
        tickers \in [1..Len(SymbolOrder) -> {<<>>} \cup {<<p>> : p \in PriceValues}]}

\* The price dict: a symbol that ends in USDT gives its asset a price; a
\* later entry for the same asset replaces an earlier one.
PriceDict(market_data) ==
    LET quoted == {i \in 1..Len(market_data) : EndsWith(Upper(market_data[i].symbol), USDT)}
        assetOf(i) == Remove(Upper(market_data[i].symbol), USDT)
        last(a) == CHOOSE i \in quoted :
                       /\ assetOf(i) = a
                       /\ \A j \in quoted : assetOf(j) = a => j <= i
    IN  [a \in {assetOf(i) : i \in quoted} |-> market_data[last(a)].price]

\* Mutant of AssetValue: a price in the table is used before the USDT rule.
AssetValuePriceFirst(asset, total, prices) ==
    IF asset \in DOMAIN prices THEN total * prices[asset]
    ELSE IF asset = USDT THEN total
    ELSE 0

\* The value of one holding: USDT at its amount, a priced asset at amount
\* times price, any other asset at 0.
AssetValue(asset, total, prices) ==
    IF asset = USDT THEN total
    ELSE IF asset \in DOMAIN prices THEN total * prices[asset]
    ELSE 0

\* total_value: the running sum over the balances with a positive total
RECURSIVE TotalValue(_, _)
TotalValue(balances, prices) ==
    IF balances = <<>>
    THEN 0
    ELSE (IF Head(balances).total > 0
          THEN AssetValue(Upper(Head(balances).asset), Head(balances).total, prices)
          ELSE 0)
         + TotalValue(Tail(balances), prices)

\* asset_values: one entry per upper-cased asset name, written by the last
\* balance of that name with a positive total.
AssetValues(balances, prices) ==
    LET held == {i \in 1..Len(balances) : balances[i].total > 0}
        last(a) == CHOOSE i \in held :
                       /\ Upper(balances[i].asset) = a
                       /\ \A j \in held : Upper(balances[j].asset) = a => j <= i
    IN  [a \in {Upper(balances[i].asset) : i \in held} |->
            [amount     |-> balances[last(a)].total,
             value_usdt |-> AssetValue(a, balances[last(a)].total, prices),
             price      |-> IF a \in DOMAIN prices THEN prices[a] ELSE 0]]

GetPortfolioValue(balances, market_data) ==
    [total_value_usdt |-> TotalValue(balances, PriceDict(market_data)),
     assets           |-> AssetValues(balances, PriceDict(market_data))]

GetPortfolioValueCalls ==
    {[fn |-> "get_portfolio_value", balances |-> b, market_data |-> m] :
        b \in BalanceLists, m \in MarketDataLists}

GetPortfolioValueCall ==
    /\ call.fn = "get_portfolio_value"
    /\ ret.status = "none"
    /\ ret' = [status |-> "returned",
               value |-> GetPortfolioValue(call.balances, call.market_data)]
    /\ UNCHANGED <<orchVars, throttleVars, calcVars, call>>

\* ----------------------------------------------------------- the adapter spec
\* The orchestrator's configuration while a single adapter is looked at
AllEnabled ==
    [e \in ExchangeNames |-> [enabled |-> TRUE, api_key |-> "key", api_secret |-> "secret"]]

AdapterInit ==
    /\ cfg = AllEnabled
    /\ OrchIdle
    /\ ThrottleIdle
    /\ CalcIdle
    /\ call \in IsEnabledCalls \cup GetAccountBalanceCalls \cup GetPortfolioValueCalls
    /\ ret = [status |-> "none"]

AdapterNext == IsEnabledCall \/ GetAccountBalanceCall \/ GetPortfolioValueCall

AdapterSpec == AdapterInit /\ [][AdapterNext]_vars

\* ------------------------------------------------- properties of the adapter
\* C13: is_enabled() on an adapter built from a configuration entry is true
\* exactly when the entry has enabled set to true and has both api_key and
\* api_secret present and non-empty.
C13_IsEnabledIffFlagAndCredentials ==
    (call.fn = "is_enabled" /\ ret.status = "returned") =>
        (ret.value <=>
            /\ call.config.enabled = <<TRUE>>
            /\ call.config.api_key \notin {<<>>, <<"">>}
            /\ call.config.api_secret \notin {<<>>, <<"">>})

\* is_enabled() has answered false for an entry that is enabled and has a
\* key but no api_secret field at all.
C13_Witness ==
    /\ call.fn = "is_enabled"
    /\ ret.status = "returned"
    /\ ~ret.value
    /\ call.config = [enabled |-> <<TRUE>>, api_key |-> <<"key">>, api_secret |-> <<>>]

\* C17: every Balance that get_account_balance() returns has its total
\* equal to free + locked.
C17_BalanceTotalIsFreePlusLocked ==
    (call.fn = "get_account_balance" /\ ret.status = "returned") =>
        \A i \in 1..Len(ret.value) :
            ret.value[i].total = ret.value[i].free + ret.value[i].locked

\* The sum of value_usdt over the entries of a breakdown
RECURSIVE SumOfBreakdown(_, _)
SumOfBreakdown(assets, keys) ==
    IF keys = {}
    THEN 0
    ELSE LET k == CHOOSE x \in keys : TRUE
         IN  assets[k].value_usdt + SumOfBreakdown(assets, keys \ {k})

\* C18: total_value_usdt is the sum of value_usdt over the breakdown, and a
\* holding (other than USDT) with a positive total and no price in the table
\* is in the breakdown with price 0 and value 0.
C18_TotalIsSumOfBreakdown ==
    (call.fn = "get_portfolio_value" /\ ret.status = "returned") =>
        /\ ret.value.total_value_usdt =
              SumOfBreakdown(ret.value.assets, DOMAIN ret.value.assets)
        /\ \A i \in 1..Len(call.balances) :
              LET a == Upper(call.balances[i].asset)
              IN  (/\ call.balances[i].total > 0
                   /\ a # USDT
                   /\ a \notin DOMAIN PriceDict(call.market_data))
                  => /\ a \in DOMAIN ret.value.assets
                     /\ ret.value.assets[a].price = 0
                     /\ ret.value.assets[a].value_usdt = 0

\* C19: a USDT holding with a positive total is in the breakdown, and the
\* USDT entry of a breakdown is worth its amount, whatever the price table.
C19_UsdtValuedAtOne ==
    (call.fn = "get_portfolio_value" /\ ret.status = "returned") =>
        /\ (\E i \in 1..Len(call.balances) :
                call.balances[i].total > 0 /\ Upper(call.balances[i].asset) = USDT)
             => USDT \in DOMAIN ret.value.assets
        /\ USDT \in DOMAIN ret.value.assets =>
              ret.value.assets[USDT].value_usdt = ret.value.assets[USDT].amount

\* A holding of 2 USDT was valued at 2 although the price table gives the
\* name USDT the price 3.
C19_Witness ==
    /\ call.fn = "get_portfolio_value"
    /\ ret.status = "returned"
    /\ USDT \in DOMAIN PriceDict(call.market_data)
    /\ USDT \in DOMAIN ret.value.assets
    /\ ret.value.assets[USDT] = [amount |-> 2, value_usdt |-> 2, price |-> 3]

\* =====================================================================
\* One Binance adapter and its throttle during one round: the connectivity
\* test of initialize(), then the four sub-collection tasks of the adapter's
\* per-exchange task, which all call the same adapter object.  The ccxt
\* client is synchronous, so a task is suspended only in the asyncio.sleep
\* of rate_limit_check; each action is one run of a task between two sleeps.

\* 60.0 / self.rate_limit in ticks of the clock
MinInterval == 3

\* The clock stops here
MaxTime == 8

\* self.symbols: the symbols the adapter is configured with
Symbols == <<"BTCUSDT", "ETHUSDT">>

\* The adapter calls of each sub-collection task, in order; each call passes
\* rate_limit_check once and then sends the requests listed for it.
AdapterCalls ==
    [balance   |-> << <<"fetch_balance">> >>,
     market    |-> << <<"fetch_tickers">> >>,
     trades    |-> << [i \in 1..Len(Symbols) |-> "fetch_my_trades"] >>,
     portfolio |-> << <<"fetch_balance">>, <<"fetch_tickers">> >>]

\* self._last_request_time.get('last', 0)
LastRequestTime(dict) == IF "last" \in DOMAIN dict THEN dict["last"] ELSE 0

\* rate_limit_check up to its sleep: how long the caller sleeps, 0 for not
\* at all, given the dict and time.time() at entry.
SleepTime(dict, current_time) ==
    LET time_diff == current_time - LastRequestTime(dict)
    IN  IF time_diff < MinInterval THEN MinInterval - time_diff ELSE 0

\* The log entries of one call that has left rate_limit_check: its release
\* and the requests it then sends without suspending.
ReleaseAndRequests(k, i) ==
    <<[ev |-> "release", task |-> k, at |-> now]>> \o
    [j \in 1..Len(AdapterCalls[k][i]) |->
        [ev |-> "request", task |-> k, at |-> now, op |-> AdapterCalls[k][i][j]]]

\* Task k leaves rate_limit_check in its call i: the time is stored, the
\* requests of the call are sent, and the task goes on to its next call,
\* where it enters rate_limit_check again and sleeps (the stored time is the
\* current one), or it is done.
Release(k, i) ==
    /\ last_request_time' = [last |-> now]
    /\ throttleLog' = throttleLog \o ReleaseAndRequests(k, i)
    /\ IF i < Len(AdapterCalls[k])
       THEN /\ thPc' = [thPc EXCEPT ![k] = [at |-> "sleep", callIdx |-> i + 1]]
            /\ wakeAt' = [wakeAt EXCEPT ![k] = now + SleepTime([last |-> now], now)]
       ELSE /\ thPc' = [thPc EXCEPT ![k] = [at |-> "done", callIdx |-> i]]
            /\ wakeAt' = wakeAt

\* BinanceExchange.initialize: the connectivity test sends its request.
TestConnection ==
    /\ ~connected
    /\ connected' = TRUE
    /\ throttleLog' = Append(throttleLog,
                             [ev |-> "request", task |-> "initialize", at |-> now,
                              op |-> "fetch_ticker"])
    /\ UNCHANGED <<orchVars, callVars, calcVars, now, last_request_time, thPc, wakeAt>>

\* The gather of _collect_exchange_data starts its tasks in list order; a
\* task runs into rate_limit_check of its first call and sleeps there or
\* goes through.
SubTaskStart(k) ==
    /\ connected
    /\ thPc[k].at = "idle"
    /\ \A i \in 1..Len(SubOrder) :
          SubOrder[i] = k => \A j \in 1..(i - 1) : thPc[SubOrder[j]].at # "idle"
    /\ IF SleepTime(last_request_time, now) > 0
       THEN /\ thPc' = [thPc EXCEPT ![k] = [at |-> "sleep", callIdx |-> 1]]
            /\ wakeAt' = [wakeAt EXCEPT ![k] = now + SleepTime(last_request_time, now)]
            /\ UNCHANGED <<last_request_time, throttleLog>>
       ELSE Release(k, 1)
    /\ UNCHANGED <<orchVars, callVars, calcVars, now, connected>>

\* The asyncio.sleep of rate_limit_check returns, at its time or later.
SleepReturns(k) ==
    /\ thPc[k].at = "sleep"
    /\ now >= wakeAt[k]
    /\ Release(k, thPc[k].callIdx)
    /\ UNCHANGED <<orchVars, callVars, calcVars, now, connected>>

\* Time passes.
ClockTick ==
    /\ now < MaxTime
    /\ now' = now + 1
    /\ UNCHANGED <<orchVars, callVars, calcVars, last_request_time, connected, thPc,
                   wakeAt, throttleLog>>

SubTaskStartSome == \E k \in Subs : SubTaskStart(k)

SleepReturnsSome == \E k \in Subs : SleepReturns(k)

\* time.time() is far above the interval when the adapter is created.
ThrottleInit ==
    /\ cfg = AllEnabled
    /\ OrchIdle
    /\ CallIdle
    /\ CalcIdle
    /\ ThrottleAt(MinInterval)

ThrottleNext == TestConnection \/ SubTaskStartSome \/ SleepReturnsSome \/ ClockTick

ThrottleSpec == ThrottleInit /\ [][ThrottleNext]_vars

\* The releases of rate_limit_check, in order
Releases == SelectSeq(throttleLog, LAMBDA entry : entry.ev = "release")

\* C14: any two consecutive releases of rate_limit_check on the adapter are
\* at least 60/rate_limit seconds apart.
C14_ReleasesSpaced ==
    \A i \in 1..(Len(Releases) - 1) :
        Releases[i + 1].at - Releases[i].at >= MinInterval

\* C15: every request the adapter sends comes right after a release of
\* rate_limit_check: no request follows another request, and none is first.
C15_EveryRequestThrottled ==
    \A i \in 1..Len(throttleLog) :
        throttleLog[i].ev = "request" =>
            (i > 1 /\ throttleLog[i - 1].ev = "release")

\* C16: at most one task is inside a call on the adapter, its wait in
\* rate_limit_check included.
C16_OneTaskPerAdapter ==
    Cardinality({k \in Subs : thPc[k].at = "sleep"}) <= 1

\* =====================================================================
\* The arbitrage calculator (src/arbitrage_calculator.py).  Prices are whole
\* numbers of ticks; a percentage is an exact fraction num/den with den > 0.

RECURSIVE Gcd(_, _)
Gcd(a, b) == IF b = 0 THEN a ELSE Gcd(b, a % b)

\* The fraction n/d in lowest terms with a positive denominator (d # 0)
Rat(n, d) ==
    LET g == Gcd(IF n < 0 THEN -n ELSE n, IF d < 0 THEN -d ELSE d)
    IN  IF d < 0 THEN [num |-> (-n) \div g, den |-> (-d) \div g]
        ELSE [num |-> n \div g, den |-> d \div g]

RatLess(x, y) == x.num * y.den < y.num * x.den

RatNeg(x) == [num |-> -x.num, den |-> x.den]

RatAbs(x) == IF x.num < 0 THEN RatNeg(x) ELSE x

RatMinus(x, y) == Rat(x.num * y.den - y.num * x.den, x.den * y.den)

RatZero == [num |-> 0, den |-> 1]

\* self.transaction_fee = 0.001
transaction_fee == [num |-> 1, den |-> 1000]

\* self.min_profit_threshold = 0.05
min_profit_threshold == [num |-> 5, den |-> 100]

\* The prices a caller can pass: none at all, and prices around 4000 ticks
\* whose spreads fall under, on and over the threshold.
PriceTicks == {0, 3999, 4001, 4002}

\* How many opportunities the history holds before the calls stop
MaxHistory == 2

\* (price_diff / ((binance_price + htx_price) / 2)) * 100, defined when the
\* two prices do not add up to zero
PriceDiffPercent(binance_price, htx_price) ==
    Rat((binance_price - htx_price) * 200, binance_price + htx_price)

\* The if / elif / else that picks the label
SuggestedAction(price_diff_percent) ==
    IF RatLess(min_profit_threshold, price_diff_percent)
    THEN "buy_htx_sell_binance"
    ELSE IF RatLess(price_diff_percent, RatNeg(min_profit_threshold))
         THEN "buy_binance_sell_htx"
         ELSE "no_action"

\* max(0, abs(price_diff_percent) - self.transaction_fee * 2 * 100)
PotentialProfitPercent(price_diff_percent) ==
    LET potential_profit ==
            RatMinus(RatAbs(price_diff_percent),
                     Rat(transaction_fee.num * 2 * 100, transaction_fee.den))
    IN  IF RatLess(RatZero, potential_profit) THEN potential_profit ELSE RatZero

\* ---- datetime.  A datetime is a whole number of hours since the start of
\* the month: day of month t \div 24 + 1, hour t % 24.  replace() gives <<>>
\* for the ValueError it raises on a field out of range, else <<datetime>>.

\* datetime.replace(hour=0, minute=0, second=0, microsecond=0)
Midnight(t) == (t \div 24) * 24

\* datetime.replace(hour=hour)
ReplaceHour(t, hour) ==
    IF hour \in 0..23 THEN <<(t \div 24) * 24 + hour>> ELSE <<>>

\* datetime.replace(day=day)
ReplaceDay(t, day) ==
    IF day \in 1..31 THEN <<(day - 1) * 24 + (t % 24)>> ELSE <<>>

\* The moments at which datetime.now() is read: 00:00 and 01:00 of the
\* first day of the month and 01:00 of the second.
ClockInstants == {0, 1, 25}

\* The ArbitrageOpportunity the call builds
Opportunity(binance_price, htx_price, timestamp) ==
    [timestamp                |-> timestamp,
     binance_price            |-> binance_price,
     htx_price                |-> htx_price,
     price_diff               |-> binance_price - htx_price,
     price_diff_percent       |-> PriceDiffPercent(binance_price, htx_price),
     suggested_action         |-> SuggestedAction(PriceDiffPercent(binance_price, htx_price)),
     potential_profit_percent |->
         PotentialProfitPercent(PriceDiffPercent(binance_price, htx_price))]

\* Mutant of HistoryAppend: the history keeps only the newest entry.
HistoryKeepNewest(history, entry) == <<entry>>

\* self.price_history.append(...) and self.pnl_history.append(...)
HistoryAppend(history, entry) == Append(history, entry)

\* calculate_arbitrage_opportunity with the default timestamp: the division
\* raises ZeroDivisionError when the prices add up to zero, before anything
\* is stored; otherwise the opportunity is appended to the history and
\* returned.
CalculateArbitrageOpportunity ==
    /\ Len(price_history) < MaxHistory
    /\ \E binance_price \in PriceTicks, htx_price \in PriceTicks :
         /\ call' = [fn |-> "calculate_arbitrage_opportunity",
                     binance_price |-> binance_price, htx_price |-> htx_price]
         /\ IF binance_price + htx_price = 0
            THEN /\ ret' = [status |-> "raised", error |-> "ZeroDivisionError"]
                 /\ price_history' = price_history
            ELSE /\ ret' = [status |-> "returned",
                            value |-> Opportunity(binance_price, htx_price, now)]
                 /\ price_history' =
                       HistoryAppend(price_history,
                                     Opportunity(binance_price, htx_price, now))
    /\ UNCHANGED <<orchVars, throttleVars, pnl_history>>

\* The values of hours a caller passes; 24 is the default.
HoursArgs == {0, 1, 24}

\* get_recent_opportunities: the cutoff is today's midnight with its hour
\* replaced by (0 - hours); the entries at or after it are returned.
RecentOpportunities(history, current, hours) ==
    LET cutoff_time == ReplaceHour(Midnight(current), (Midnight(current) % 24) - hours)
    IN  IF cutoff_time = <<>>
        THEN [status |-> "raised", error |-> "ValueError"]
        ELSE [status |-> "returned",
              value  |-> SelectSeq(history, LAMBDA opp : opp.timestamp >= cutoff_time[1])]

GetRecentOpportunities ==
    /\ \E hours \in HoursArgs :
         /\ call' = [fn |-> "get_recent_opportunities", hours |-> hours, at |-> now]
         /\ ret' = RecentOpportunities(price_history, now, hours)
    /\ UNCHANGED <<orchVars, throttleVars, calcVars>>

\* datetime.now() moves on to its next moment.
CalcClockTick ==
    /\ \E t \in ClockInstants :
         /\ t > now
         /\ \A u \in ClockInstants : u > now => t <= u
         /\ now' = t
    /\ UNCHANGED <<orchVars, callVars, calcVars, last_request_time, connected, thPc,
                   wakeAt, throttleLog>>

CalcInit ==
    /\ cfg = AllEnabled
    /\ OrchIdle
    /\ ThrottleIdle
    /\ CallIdle
    /\ CalcIdle

CalcNext == CalculateArbitrageOpportunity \/ GetRecentOpportunities \/ CalcClockTick

CalcSpec == CalcInit /\ [][CalcNext]_vars

\* ---- ArbitrageCalculator: PnL records, their queries and the statistics.
\* An amount is a whole number of USDT, a balance a dict from asset name to
\* amount, a price table a dict from pair name to a whole price.

FDUSD == <<"F", "D", "U", "S", "D">>

USDC == <<"U", "S", "D", "C">>

\* initial_capital: float = 10000.0
initial_capital == 10000

\* How many PnL records the history holds before the calls stop
MaxPnlHistory == 3

RatPlus(x, y) == Rat(x.num * y.den + y.num * x.den, x.den * y.den)

RatTimes(x, y) == Rat(x.num * y.num, x.den * y.den)

\* x / y for y other than zero
RatDiv(x, y) == Rat(x.num * y.den, x.den * y.num)

\* prices.get(key, 1.0)
PriceOr(prices, key) == IF key \in DOMAIN prices THEN prices[key] ELSE 1

\* Mutant of AssetValueUsdt: a stablecoin the table has no price for adds
\* nothing.
AssetValueUsdtTableOnly(asset, amount, prices) ==
    IF amount <= 0
    THEN 0
    ELSE IF Upper(asset) = USDT
         THEN amount
         ELSE IF Upper(asset) = FDUSD /\ "fdusd_usdt" \in DOMAIN prices
              THEN amount * prices["fdusd_usdt"]
              ELSE IF Upper(asset) = USDC /\ "usdc_usdt" \in DOMAIN prices
                   THEN amount * prices["usdc_usdt"]
                   ELSE 0

\* One turn of the loop over balance.items(): what the asset adds to the total
AssetValueUsdt(asset, amount, prices) ==
    IF amount <= 0
    THEN 0
    ELSE IF Upper(asset) = USDT
         THEN amount
         ELSE IF Upper(asset) = FDUSD
              THEN amount * PriceOr(prices, "fdusd_usdt")
              ELSE IF Upper(asset) = USDC
                   THEN amount * PriceOr(prices, "usdc_usdt")
                   ELSE 0

RECURSIVE SumAssetValues(_, _, _)
SumAssetValues(balance, assets, prices) ==
    IF assets = {}
    THEN 0
    ELSE LET asset == CHOOSE a \in assets : TRUE
         IN  AssetValueUsdt(asset, balance[asset], prices)
                 + SumAssetValues(balance, assets \ {asset}, prices)

\* _calculate_total_value_usdt
CalculateTotalValueUsdt(balance, prices) ==
    SumAssetValues(balance, DOMAIN balance, prices)

\* timestamp.date()
DateOf(t) == t \div 24

\* The balances and the price table a caller passes
BinanceBalances == {<<>>, [a \in {USDT} |-> 10000]}

HtxBalances == {<<>>, [a \in {FDUSD} |-> 5000]}

PriceTables == {<<>>}

\* daily_pnl: 0 on the first call and on the date of the last record, else
\* the change from the last record's total
DailyPnl(history, total_value, timestamp) ==
    IF history = <<>>
    THEN 0
    ELSE IF DateOf(timestamp) # DateOf(history[Len(history)].timestamp)
         THEN total_value - history[Len(history)].total_value_usdt
         ELSE 0

\* The division daily_pnl / last_pnl.total_value_usdt is evaluated exactly
\* on a new date.
DailyPercentDivides(history, timestamp) ==
    /\ history # <<>>
    /\ DateOf(timestamp) # DateOf(history[Len(history)].timestamp)

\* The PnLData the call builds
PnLData(history, binance_total, htx_total, timestamp) ==
    LET total_value == binance_total + htx_total
        daily_pnl   == DailyPnl(history, total_value, timestamp)
    IN  [timestamp              |-> timestamp,
         total_value_usdt       |-> total_value,
         binance_balance_usdt   |-> binance_total,
         htx_balance_usdt       |-> htx_total,
         daily_pnl              |-> daily_pnl,
         daily_pnl_percent      |->
             IF DailyPercentDivides(history, timestamp)
             THEN Rat(daily_pnl * 100, history[Len(history)].total_value_usdt)
             ELSE RatZero,
         cumulative_pnl         |-> total_value - initial_capital,
         cumulative_pnl_percent |->
             Rat((total_value - initial_capital) * 100, initial_capital)]

\* calculate_pnl for given arguments and the default timestamp: on a new
\* date the percent divides by the last record's total and raises
\* ZeroDivisionError when that is 0, before anything is stored; otherwise the
\* record is appended and returned.
CalculatePnlOf(binance_balance, htx_balance, current_prices) ==
    LET binance_total == CalculateTotalValueUsdt(binance_balance, current_prices)
        htx_total     == CalculateTotalValueUsdt(htx_balance, current_prices)
    IN  /\ call' = [fn |-> "calculate_pnl", binance_balance |-> binance_balance,
                    htx_balance |-> htx_balance, current_prices |-> current_prices,
                    timestamp |-> now]
        /\ IF /\ DailyPercentDivides(pnl_history, now)
              /\ pnl_history[Len(pnl_history)].total_value_usdt = 0
           THEN /\ ret' = [status |-> "raised", error |-> "ZeroDivisionError"]
                /\ pnl_history' = pnl_history
           ELSE /\ ret' = [status |-> "returned",
                           value |-> PnLData(pnl_history, binance_total, htx_total, now)]
                /\ pnl_history' =
                      HistoryAppend(pnl_history,
                                    PnLData(pnl_history, binance_total, htx_total, now))
        /\ UNCHANGED <<orchVars, throttleVars, price_history>>

\* A call of calculate_pnl on a history with room for one more record
CalculatePnl ==
    /\ Len(pnl_history) < MaxPnlHistory
    /\ \E binance_balance \in BinanceBalances, htx_balance \in HtxBalances,
          current_prices \in PriceTables :
         CalculatePnlOf(binance_balance, htx_balance, current_prices)

\* The values of days a caller passes; 30 is the default.
DaysArgs == {0, 1, 30}

\* cutoff_time.day
DayOfMonth(t) == t \div 24 + 1

\* get_recent_pnl: the cutoff is today's midnight with its day of month
\* replaced by (day - days); the records at or after it are returned.
RecentPnl(history, current, days) ==
    LET cutoff_time == ReplaceDay(Midnight(current), DayOfMonth(Midnight(current)) - days)
    IN  IF cutoff_time = <<>>
        THEN [status |-> "raised", error |-> "ValueError"]
        ELSE [status |-> "returned",
              value  |-> SelectSeq(history, LAMBDA pnl : pnl.timestamp >= cutoff_time[1])]

GetRecentPnl ==
    /\ \E days \in DaysArgs :
         /\ call' = [fn |-> "get_recent_pnl", days |-> days, at |-> now]
         /\ ret' = RecentPnl(pnl_history, now, days)
    /\ UNCHANGED <<orchVars, throttleVars, calcVars>>

RatMax(x, y) == IF RatLess(x, y) THEN y ELSE x

Max(a, b) == IF a < b THEN b ELSE a

\* The loop of lines 188-191, started with max_value = initial_capital and
\* max_drawdown = 0
RECURSIVE MaxDrawdown(_, _, _)
MaxDrawdown(history, max_value, max_drawdown) ==
    IF history = <<>>
    THEN max_drawdown
    ELSE LET peak == Max(max_value, Head(history).total_value_usdt)
         IN  MaxDrawdown(Tail(history), peak,
                         RatMax(max_drawdown,
                                Rat((peak - Head(history).total_value_usdt) * 100, peak)))

\* daily_returns, defined when no record but the last has total 0
DailyReturns(history) ==
    [i \in 1..(Len(history) - 1) |->
        Rat(history[i + 1].total_value_usdt - history[i].total_value_usdt,
            history[i].total_value_usdt)]

\* Some prev_value of the loop of lines 199-203 is 0
ReturnsDivideByZero(history) ==
    \E i \in 1..(Len(history) - 1) : history[i].total_value_usdt = 0

RECURSIVE RatSum(_)
RatSum(seq) == IF seq = <<>> THEN RatZero ELSE RatPlus(Head(seq), RatSum(Tail(seq)))

\* statistics.mean
Mean(seq) == RatDiv(RatSum(seq), [num |-> Len(seq), den |-> 1])

\* The square of statistics.stdev, for two values or more
Variance(seq) ==
    RatDiv(RatSum([i \in 1..Len(seq) |->
                      RatTimes(RatMinus(seq[i], Mean(seq)), RatMinus(seq[i], Mean(seq)))]),
           [num |-> Len(seq) - 1, den |-> 1])

\* sharpe_ratio: 0 without two returns or with a zero deviation, else the
\* mean and the variance it is made of, mean * 365 / sqrt(variance * 365)
SharpeRatio(daily_returns) ==
    IF Len(daily_returns) > 1 /\ Variance(daily_returns) # RatZero
    THEN [mean |-> Mean(daily_returns), variance |-> Variance(daily_returns)]
    ELSE RatZero

\* get_performance_stats
PerformanceStats(history, current) ==
    IF history = <<>>
    THEN [status |-> "returned", value |-> <<>>]
    ELSE IF ReturnsDivideByZero(history)
         THEN [status |-> "raised", error |-> "ZeroDivisionError"]
         ELSE LET days_running == Max(1, (current - history[1].timestamp) \div 24)
              IN  [status |-> "returned",
                   value  |->
                      [total_return_percent      |->
                           history[Len(history)].cumulative_pnl_percent,
                       annualized_return_percent |->
                           Rat(history[Len(history)].cumulative_pnl_percent.num * 365,
                               history[Len(history)].cumulative_pnl_percent.den
                                   * days_running),
                       max_drawdown_percent      |->
                           MaxDrawdown(history, initial_capital, RatZero),
                       sharpe_ratio              |-> SharpeRatio(DailyReturns(history)),
                       days_running              |-> days_running,
                       current_value_usdt        |->
                           history[Len(history)].total_value_usdt]]

GetPerformanceStats ==
    /\ call' = [fn |-> "get_performance_stats", at |-> now]
    /\ ret' = PerformanceStats(pnl_history, now)
    /\ UNCHANGED <<orchVars, throttleVars, calcVars>>

PnlNext == CalculatePnl \/ GetRecentPnl \/ GetPerformanceStats \/ CalcClockTick

PnlSpec == CalcInit /\ [][PnlNext]_vars

\* ---- The first calculate_pnl of a calculator, over balances of every
\* kind: USDT under both spellings, FDUSD, USDC, an asset that is no
\* stablecoin, amounts above, at and below zero, and price tables with and
\* without each of the two pairs.
BinanceHoldings ==
    UNION {[S -> {0, 3}] : S \in SUBSET {USDT, FDUSD, BTC}}

HtxHoldings ==
    UNION {[S -> {-1, 2}] : S \in SUBSET {<<"u", "s", "d", "t">>, USDC}}

StablecoinPrices ==
    UNION {[S -> {0, 2, 3}] : S \in SUBSET {"fdusd_usdt", "usdc_usdt"}}

CalculateFirstPnl ==
    /\ pnl_history = <<>>
    /\ \E binance_balance \in BinanceHoldings, htx_balance \in HtxHoldings,
          current_prices \in StablecoinPrices :
         CalculatePnlOf(binance_balance, htx_balance, current_prices)

ValuationNext == CalculateFirstPnl \/ CalcClockTick

ValuationSpec == CalcInit /\ [][ValuationNext]_vars

\* Every operation of the calculator on one instance at one moment of the
\* clock, while the two histories together hold fewer than MaxEntries entries
MaxEntries == 2

EntriesLeft == Len(price_history) + Len(pnl_history) < MaxEntries

CalculatorNext ==
    \/ EntriesLeft /\ CalculateArbitrageOpportunity
    \/ GetRecentOpportunities
    \/ EntriesLeft /\ CalculatePnl
    \/ GetRecentPnl
    \/ GetPerformanceStats

CalculatorSpec == CalcInit /\ [][CalculatorNext]_vars

\* The label the claim gives a pair of prices with a positive sum: the
\* spread percent is 200 * (a - b) / (a + b), compared with the threshold.
LabelOfSpread(a, b) ==
    IF 200 * (a - b) * min_profit_threshold.den > min_profit_threshold.num * (a + b)
    THEN "buy_htx_sell_binance"
    ELSE IF 200 * (a - b) * min_profit_threshold.den < -(min_profit_threshold.num * (a + b))
         THEN "buy_binance_sell_htx"
         ELSE "no_action"

CalledOpportunity == call.fn = "calculate_arbitrage_opportunity"

\* C20: every call of calculate_arbitrage_opportunity returns an
\* opportunity whose label follows the spread percent, and a call with equal
\* prices returns 'no_action'.
C20_LabelFollowsSpreadAlways ==
    CalledOpportunity =>
        /\ ret.status = "returned"
        /\ ret.value.suggested_action = LabelOfSpread(call.binance_price, call.htx_price)
        /\ call.binance_price = call.htx_price => ret.value.suggested_action = "no_action"

RatEq(x, y) == x.num * y.den = y.num * x.den

AbsDiff(a, b) == IF a < b THEN b - a ELSE a - b

\* max(0, |spreadPercent| - 2 * feeRate * 100) for prices with a positive
\* sum: the spread percent is 200 * |a - b| / (a + b), twice the fee percent
\* is 200 * fee.
ClampedProfit(a, b) ==
    LET spread == Rat(200 * AbsDiff(a, b), a + b)
        fees   == Rat(200 * transaction_fee.num, transaction_fee.den)
    IN  IF RatLess(fees, spread) THEN RatMinus(spread, fees) ELSE RatZero

\* C21: every call of calculate_arbitrage_opportunity returns an
\* opportunity whose potential_profit_percent is max(0, |spreadPercent| -
\* 2 * feeRate * 100): never negative, and 0 when the absolute spread percent
\* does not exceed twice the fee percent.
C21_ProfitClampedAlways ==
    CalledOpportunity =>
        /\ ret.status = "returned"
        /\ RatEq(ret.value.potential_profit_percent,
                 ClampedProfit(call.binance_price, call.htx_price))
        /\ ~RatLess(ret.value.potential_profit_percent, RatZero)

\* C24: get_recent_opportunities(hours) returns, without error, the stored
\* opportunities whose timestamp is at or after the time of the call minus
\* hours, in history order.
C24_RecentOpportunitiesSinceCutoff ==
    call.fn = "get_recent_opportunities" =>
        /\ ret.status = "returned"
        /\ ret.value = SelectSeq(price_history,
                                 LAMBDA opp : opp.timestamp >= call.at - call.hours)

\* C22: every call of calculate_pnl reports a daily_pnl of 0 when it is the
\* first call or has the calendar date of the most recent stored record, and
\* of its total minus that record's total, not an older one's, when the
\* date differs.
C22_DailyPnlAgainstLastEntry ==
    call.fn = "calculate_pnl" =>
        /\ ret.status = "returned"
        /\ ret.value.daily_pnl =
              IF Len(pnl_history) = 1
              THEN 0
              ELSE IF DateOf(call.timestamp)
                        = DateOf(pnl_history[Len(pnl_history) - 1].timestamp)
                   THEN 0
                   ELSE ret.value.total_value_usdt
                            - pnl_history[Len(pnl_history) - 1].total_value_usdt

IsPrefix(s, t) == Len(s) <= Len(t) /\ SubSeq(t, 1, Len(s)) = s

ComputeCalls == {"calculate_arbitrage_opportunity", "calculate_pnl"}

QueryCalls == {"get_recent_opportunities", "get_recent_pnl", "get_performance_stats"}

\* C23: every operation of the calculator leaves each history an extension
\* of what it was; a compute call that returns appends exactly its result
\* at the end of its own history and leaves the other alone; the three
\* queries leave both histories unchanged.
C23_HistoriesAppendOnly ==
    [][/\ IsPrefix(price_history, price_history')
       /\ IsPrefix(pnl_history, pnl_history')
       /\ (call'.fn = "calculate_arbitrage_opportunity" /\ ret'.status = "returned")
              => /\ price_history' = Append(price_history, ret'.value)
                 /\ pnl_history' = pnl_history
       /\ (call'.fn = "calculate_pnl" /\ ret'.status = "returned")
              => /\ pnl_history' = Append(pnl_history, ret'.value)
                 /\ price_history' = price_history
       /\ (call'.fn \in ComputeCalls /\ ret'.status = "raised")
              => UNCHANGED <<price_history, pnl_history>>
       /\ call'.fn \in QueryCalls => UNCHANGED <<price_history, pnl_history>>]_vars

\* A PnL record has just been appended to a calculator that already held an
\* opportunity.
C23_Witness ==
    /\ call.fn = "calculate_pnl"
    /\ ret.status = "returned"
    /\ Len(price_history) = 1
    /\ pnl_history = <<ret.value>>

\* C25: get_recent_pnl(days) returns, without error, the stored records
\* whose timestamp is at or after the time of the call minus days days, in
\* history order.
C25_RecentPnlSinceCutoff ==
    call.fn = "get_recent_pnl" =>
        /\ ret.status = "returned"
        /\ ret.value = SelectSeq(pnl_history,
                                 LAMBDA pnl : pnl.timestamp >= call.at - 24 * call.days)

\* C26: get_performance_stats returns the empty result on an empty PnL
\* history, and on a history of one record returns sharpe_ratio 0 and
\* max_drawdown_percent 0.
C26_StatsOnShortHistory ==
    call.fn = "get_performance_stats" =>
        /\ pnl_history = <<>> => ret = [status |-> "returned", value |-> <<>>]
        /\ Len(pnl_history) = 1 =>
              /\ ret.status = "returned"
              /\ ret.value.sharpe_ratio = RatZero
              /\ ret.value.max_drawdown_percent = RatZero

\* C27: a get_account_balance call whose exchange request fails ends in an
\* error, which no call that succeeds, one with no balances included, can be
\* taken for.
C27_BalanceFailureToldApart ==
    (call.fn = "get_account_balance" /\ ret.status # "none" /\ call.response.raises) =>
        /\ ret.status = "raised"
        /\ \A r \in BalanceResponses :
              ~r.raises => ret # [status |-> "returned", value |-> GetAccountBalance(r)]

\* ---- DataCollector._collect_strategy_pnl and _health_check_loop on their
\* own, with what each hands to the sink.

\* self.exchanges after an initialize(): the adapters that came up, in the
\* order of the configuration, at least one
ActiveLists ==
    {SelectSeq(ExchangeOrder, LAMBDA e : e \in S) : S \in SUBSET ExchangeNames \ {{}}}

\* The largest total a portfolio value holds
MaxTotal == 2

\* What `await exchange.get_portfolio_value()` does: it raises, or returns
\* nothing, or returns a value with its total
PortfolioResults ==
    {[raises |-> TRUE]}
        \cup {[raises |-> FALSE, value |-> <<>>]}
        \cup {[raises |-> FALSE, value |-> [total_value_usdt |-> t]] : t \in 0..MaxTotal}

\* Mutant of WritesStrategyPnl: a total of zero is written too.
WritesStrategyPnlAnyTotal(result) ==
    /\ ~result.raises
    /\ result.value # <<>>

\* `if portfolio_value and portfolio_value['total_value_usdt'] > 0:`, which
\* a raising get_portfolio_value never reaches
WritesStrategyPnl(result) ==
    /\ ~result.raises
    /\ result.value # <<>>
    /\ result.value.total_value_usdt > 0

\* One turn of the loop of _collect_strategy_pnl with what it did: the
\* exchange is valued, its point is handed to write_strategy_pnl if the
\* value is positive, and an error is logged and the loop goes on.  After
\* the last exchange the pass returns and start() sleeps.
CollectStrategyPnlStep ==
    /\ mainPc = "pnl"
    /\ call.fn = "_collect_strategy_pnl"
    /\ \E result \in PortfolioResults, write \in WriteOutcomes :
         ret' = [status |-> IF pnlIdx < Len(exchanges) THEN "running" ELSE "returned",
                 turns  |-> Append(ret.turns,
                                   [exchange        |-> exchanges[pnlIdx],
                                    portfolio_value |-> result,
                                    written         |-> WritesStrategyPnl(result),
                                    sink            |-> IF WritesStrategyPnl(result)
                                                        THEN write ELSE "none"])]
    /\ IF pnlIdx < Len(exchanges)
       THEN /\ pnlIdx' = pnlIdx + 1
            /\ mainPc' = mainPc
       ELSE /\ pnlIdx' = 0
            /\ mainPc' = IF running THEN "sleep" ELSE "loop"
    /\ UNCHANGED <<throttleVars, calcVars, call, cfg, exchanges, running, dashRunning,
                   stats, initIdx, initOk, exTask, sub, healthPc, closeCalls,
                   closeRaised, extStops, exitCode>>

\* The collector in the middle of a round: the gather is over and the pass
\* is about to value its first exchange.
StrategyPnlInit ==
    /\ cfg = AllEnabled
    /\ exchanges \in ActiveLists
    /\ running = TRUE
    /\ dashRunning = TRUE
    /\ stats = [collections_completed |-> 0, collections_failed |-> 0]
    /\ mainPc = "pnl"
    /\ initIdx = 0
    /\ initOk = Range(exchanges)
    /\ exTask = NoTasks
    /\ sub = NoSubs
    /\ pnlIdx = 1
    /\ healthPc = "sleep"
    /\ closeCalls = [e \in ExchangeNames |-> 0]
    /\ closeRaised = {}
    /\ extStops = 0
    /\ exitCode = -1
    /\ ThrottleIdle
    /\ CalcIdle
    /\ call = [fn |-> "_collect_strategy_pnl"]
    /\ ret = [status |-> "running", turns |-> <<>>]

StrategyPnlNext == CollectStrategyPnlStep \/ ExternalStop

StrategyPnlSpec == StrategyPnlInit /\ [][StrategyPnlNext]_vars

\* ---- One collection round with what each sub-collection fetched and
\* what became of its sink write.

\* Nothing fetched or written yet
NoFetches == [e \in ExchangeNames |-> [k \in Subs |-> [fetch |-> "none", write |-> "none"]]]

\* One sub-collection runs from its adapter call to its return, as in
\* SubCollect; the write is awaited only when the fetch returned data.
SubCollectLogged(e, k) ==
    /\ MainSuspended
    /\ exTask[e] = "gathering"
    /\ sub[e][k] = "fetch"
    /\ call.fn = "_collect_data_round"
    /\ \E fetch \in FetchOutcomes, write \in WriteOutcomes :
         /\ sub' = [sub EXCEPT ![e][k] = SubResult(fetch, write)]
         /\ ret' = [ret EXCEPT !.subs[e][k] =
                        [fetch |-> fetch,
                         write |-> IF fetch = "data" THEN write ELSE "none"]]
    /\ UNCHANGED <<throttleVars, calcVars, call, cfg, exchanges, running, dashRunning,
                   stats, mainPc, initIdx, initOk, exTask, pnlIdx, healthPc, closeCalls,
                   closeRaised, extStops, exitCode>>

SubCollectLoggedSome == \E e \in ExchangeNames, k \in Subs : SubCollectLogged(e, k)

\* The collector at the test of start()'s loop, before its first round,
\* with one of the known adapters active
RoundInit ==
    /\ cfg = AllEnabled
    /\ exchanges \in {<<"binance">>, <<"htx">>}
    /\ running = TRUE
    /\ dashRunning = TRUE
    /\ stats = [collections_completed |-> 0, collections_failed |-> 0]
    /\ mainPc = "loop"
    /\ initIdx = 0
    /\ initOk = Range(exchanges)
    /\ exTask = NoTasks
    /\ sub = NoSubs
    /\ pnlIdx = 0
    /\ healthPc = "sleep"
    /\ closeCalls = [e \in ExchangeNames |-> 0]
    /\ closeRaised = {}
    /\ extStops = 0
    /\ exitCode = -1
    /\ ThrottleIdle
    /\ CalcIdle
    /\ call = [fn |-> "_collect_data_round"]
    /\ ret = [status |-> "running", subs |-> NoFetches]

RoundNext ==
    \/ RoundStart
    \/ SubCollectLoggedSome
    \/ ExchangeJoinSome
    \/ RoundJoin
    \/ PnlStep

RoundSpec == RoundInit /\ [][RoundNext]_vars

\* process.memory_info().rss / 1024 / 1024 of a running process, in MB
RssMb == 1

\* _get_memory_usage: the figure, 0.0 on ImportError, <<>> when another
\* error leaves the function
MemoryUsage(mem) ==
    IF mem = "value" THEN <<RssMb>> ELSE IF mem = "import_error" THEN <<0>> ELSE <<>>

\* The health_metrics dict of one tick
HealthMetrics(memory_usage_mb) ==
    [collections_completed |-> stats.collections_completed,
     collections_failed    |-> stats.collections_failed,
     exchanges_active      |-> Len(exchanges),
     memory_usage_mb       |-> memory_usage_mb]

\* The sleep of _health_check_loop returns, with what the tick did: if the
\* collector still runs the metrics are gathered and handed to
\* write_health_metrics; an error leaving _get_memory_usage is caught by the
\* loop's handler, nothing is written and the loop sleeps again.
HealthTick ==
    /\ MainSuspended
    /\ healthPc = "sleep"
    /\ call.fn = "_health_check_loop"
    /\ \E mem \in MemoryOutcomes :
         IF HealthTickRuns
         THEN /\ healthPc' = IF MemoryUsage(mem) = <<>> THEN "sleep" ELSE "write"
              /\ ret' = [status  |-> "running",
                         probe   |-> mem,
                         written |-> IF MemoryUsage(mem) = <<>>
                                     THEN <<>>
                                     ELSE <<HealthMetrics(MemoryUsage(mem)[1])>>]
         ELSE /\ healthPc' = "exited"
              /\ ret' = [status |-> "returned", probe |-> "none", written |-> <<>>]
    /\ UNCHANGED <<throttleVars, calcVars, call, cfg, exchanges, running, dashRunning,
                   stats, mainPc, initIdx, initOk, exTask, sub, pnlIdx, closeCalls,
                   closeRaised, extStops, exitCode>>

\* The collector asleep between two rounds with its health-check task
\* asleep too
HealthInit ==
    /\ cfg = AllEnabled
    /\ exchanges \in ActiveLists
    /\ running = TRUE
    /\ dashRunning = TRUE
    /\ stats \in [collections_completed : 0..1, collections_failed : 0..1]
    /\ mainPc = "sleep"
    /\ initIdx = 0
    /\ initOk = Range(exchanges)
    /\ exTask = NoTasks
    /\ sub = NoSubs
    /\ pnlIdx = 0
    /\ healthPc = "sleep"
    /\ closeCalls = [e \in ExchangeNames |-> 0]
    /\ closeRaised = {}
    /\ extStops = 0
    /\ exitCode = -1
    /\ ThrottleIdle
    /\ CalcIdle
    /\ call = [fn |-> "_health_check_loop"]
    /\ ret = [status |-> "running", probe |-> "none", written |-> <<>>]

HealthNext ==
    \/ HealthTick
    \/ HealthWriteDone
    \/ HealthCancelled
    \/ ExternalStop
    \/ SleepWake
    \/ StartCleanup

HealthSpec == HealthInit /\ [][HealthNext]_vars

\* BinanceExchange.close: `if self._client:` holds on every call after
\* initialize(), which nothing undoes, so each close() closes the client.
ClientCloses(exchange) == closeCalls[exchange]

\* C28: a second close() of an adapter does not close its client again: the
\* client of the Binance adapter is closed at most once.
C28_SecondCloseLeavesClient == ClientCloses("binance") <= 1

ValueObtained(result) == ~result.raises /\ result.value # <<>>

\* C29: in a strategy-PnL pass a point is handed to the sink for an exchange
\* exactly when its portfolio value was obtained and its total is above
\* zero, the exchanges are taken in order whatever happened to the ones
\* before, and when the pass returns every exchange has had its turn.
C29_PointIffPositiveValue ==
    call.fn = "_collect_strategy_pnl" =>
        /\ \A i \in 1..Len(ret.turns) :
              /\ ret.turns[i].exchange = exchanges[i]
              /\ ret.turns[i].written <=>
                    (/\ ValueObtained(ret.turns[i].portfolio_value)
                     /\ ret.turns[i].portfolio_value.value.total_value_usdt > 0)
        /\ ret.status = "returned" => Len(ret.turns) = Len(exchanges)
        /\ ret.status = "running" => Len(ret.turns) = pnlIdx - 1

\* A pass over two exchanges or more has returned: the first valuation
\* failed, a later exchange had its point written.
C29_Witness ==
    /\ call.fn = "_collect_strategy_pnl"
    /\ ret.status = "returned"
    /\ Len(ret.turns) >= 2
    /\ ret.turns[1].portfolio_value.raises
    /\ ret.turns[2].written

\* C30: a tick of the health-check loop whose memory probe fails, in
\* whatever way, still hands its metrics to the sink, with memory_usage_mb
\* 0.
C30_MemoryFailureReportsZero ==
    (call.fn = "_health_check_loop" /\ ret.probe \in {"import_error", "other_error"}) =>
        /\ ret.written # <<>>
        /\ ret.written[1].memory_usage_mb = 0

\* This step belongs to a collection round: it moves a per-exchange task, a
\* sub-collection, the strategy-PnL pass or the counters.
RoundStep == exTask' # exTask \/ sub' # sub \/ pnlIdx' # pnlIdx \/ stats' # stats

\* C31: no step of a collection round, whatever its outcome, changes the
\* running flag or the set of active adapters, and a round that ends while
\* the collector runs leaves start() in the sleep before the next round.
C31_RoundKeepsLifecycle ==
    [][RoundStep =>
          /\ running' = running
          /\ exchanges' = exchanges
          /\ (pnlIdx # 0 /\ pnlIdx' = 0 /\ running) => mainPc' = "sleep"]_vars

\* A round in which both active adapters failed is over and start() sleeps
\* before the next one.
C31_Witness ==
    /\ mainPc = "sleep"
    /\ running
    /\ Len(exchanges) = 2
    /\ stats = [collections_completed |-> 0, collections_failed |-> 2]

\* C32: once initialize() has returned, the active set holds exactly the
\* adapters that were built and whose initialize() succeeded, each of an
\* enabled exchange of a known type, and no later step changes it.
C32_ActiveSetIsInitialized ==
    [][/\ InitializeReturned =>
             /\ Range(exchanges) = initOk
             /\ \A e \in Range(exchanges) : e \in KnownExchangeTypes /\ cfg[e].enabled
             /\ exchanges' = exchanges
       /\ InitializeReturned' =>
             /\ Range(exchanges') = initOk'
             /\ \A e \in Range(exchanges') : e \in KnownExchangeTypes /\ cfg[e].enabled]_vars

\* The process has exited after a round and its shutdown with the one
\* adapter that came up: binance was enabled too and failed to initialize.
C32_Witness ==
    /\ mainPc = "exited"
    /\ exitCode = 0
    /\ exchanges = <<"htx">>
    /\ cfg["binance"].enabled
    /\ stats.collections_completed + stats.collections_failed = 1

\* C35: the two counters never decrease, and the step that tallies a round
\* adds the number of successful exchanges to collections_completed and
\* the number of the other active adapters to collections_failed.
C35_CountersGrowByActiveSet ==
    [][/\ stats'.collections_completed >= stats.collections_completed
       /\ stats'.collections_failed >= stats.collections_failed
       /\ stats' # stats =>
             /\ stats'.collections_completed - stats.collections_completed
                   = Cardinality({e \in Range(exchanges) : exTask[e] = "true"})
             /\ stats'.collections_failed - stats.collections_failed
                   = Len(exchanges)
                       - Cardinality({e \in Range(exchanges) : exTask[e] = "true"})]_vars

\* Two rounds of one adapter have been tallied: one succeeded, one failed.
C35_Witness ==
    /\ Len(exchanges) = 1
    /\ stats = [collections_completed |-> 1, collections_failed |-> 1]
    /\ RoundIdle

\* C36: a step in which start() begins a collection round is taken while
\* the collector runs and before any call of stop().
C36_NoRoundAfterStop ==
    [][(mainPc = "loop" /\ mainPc' = "gather") => (running /\ ~StopReturned)]_vars

\* stop() was called during the sleep that followed a round; start() has
\* come back to the test of its loop and begins no round.
C36_Witness ==
    /\ mainPc = "loop"
    /\ ~running
    /\ extStops = 1
    /\ stats.collections_completed + stats.collections_failed >= 1

\* C38: every entry of the breakdown get_portfolio_value returns has
\* value_usdt = amount * price, the USDT entry included.
C38_BreakdownValueIsAmountTimesPrice ==
    (call.fn = "get_portfolio_value" /\ ret.status = "returned") =>
        \A a \in DOMAIN ret.value.assets :
            ret.value.assets[a].value_usdt
                = ret.value.assets[a].amount * ret.value.assets[a].price

\* The positive amounts a balance holds under a name, whatever its case
RECURSIVE HeldUnder(_, _, _)
HeldUnder(balance, assets, name) ==
    IF assets = {}
    THEN 0
    ELSE LET a == CHOOSE x \in assets : TRUE
         IN  (IF Upper(a) = name /\ balance[a] > 0 THEN balance[a] ELSE 0)
                 + HeldUnder(balance, assets \ {a}, name)

\* What the claim values a balance at: USDT at 1, FDUSD and USDC at the
\* table's price or at 1 without one, nothing else
ClaimedValue(balance, prices) ==
    HeldUnder(balance, DOMAIN balance, USDT)
        + HeldUnder(balance, DOMAIN balance, FDUSD)
            * (IF "fdusd_usdt" \in DOMAIN prices THEN prices["fdusd_usdt"] ELSE 1)
        + HeldUnder(balance, DOMAIN balance, USDC)
            * (IF "usdc_usdt" \in DOMAIN prices THEN prices["usdc_usdt"] ELSE 1)

\* C33: the record calculate_pnl returns values each exchange's balance
\* with USDT at 1, FDUSD and USDC at the table's price or at 1 when the
\* table has none, and every other asset and every amount not above zero at
\* 0; its total is the sum of the two and its cumulative_pnl the total minus
\* the initial capital.
C33_BalancesValuedInUsdt ==
    (call.fn = "calculate_pnl" /\ ret.status = "returned") =>
        /\ ret.value.binance_balance_usdt
              = ClaimedValue(call.binance_balance, call.current_prices)
        /\ ret.value.htx_balance_usdt
              = ClaimedValue(call.htx_balance, call.current_prices)
        /\ ret.value.total_value_usdt
              = ret.value.binance_balance_usdt + ret.value.htx_balance_usdt
        /\ ret.value.cumulative_pnl = ret.value.total_value_usdt - initial_capital

\* A call with USDT, FDUSD and another asset on one exchange, lower-case
\* usdt below zero and USDC on the other, and a table that prices FDUSD
\* only: 3 + 3 * 2 on the first, 2 on the second.
C33_Witness ==
    /\ call.fn = "calculate_pnl"
    /\ ret.status = "returned"
    /\ call.binance_balance = [a \in {USDT, FDUSD, BTC} |-> 3]
    /\ call.htx_balance = [a \in {<<"u", "s", "d", "t">>, USDC} |->
                              IF a = USDC THEN 2 ELSE -1]
    /\ call.current_prices = [p \in {"fdusd_usdt"} |-> 2]
    /\ ret.value.binance_balance_usdt = 9
    /\ ret.value.htx_balance_usdt = 2

\* The largest percentage decline of a record's total from the highest
\* total recorded up to it; peak is 0 before the first record
RECURSIVE DeclineFromRecordedPeak(_, _, _)
DeclineFromRecordedPeak(history, peak, largest) ==
    IF history = <<>>
    THEN largest
    ELSE LET top == Max(peak, Head(history).total_value_usdt)
         IN  DeclineFromRecordedPeak(
                 Tail(history), top,
                 IF top = 0
                 THEN largest
                 ELSE RatMax(largest,
                             Rat((top - Head(history).total_value_usdt) * 100, top)))

\* C34: the max_drawdown_percent get_performance_stats returns is the
\* largest percentage decline of a record's total from the running maximum
\* of the totals recorded in the history up to that record.
C34_DrawdownFromRecordedPeak ==
    (/\ call.fn = "get_performance_stats"
     /\ ret.status = "returned"
     /\ pnl_history # <<>>) =>
        ret.value.max_drawdown_percent
            = DeclineFromRecordedPeak(pnl_history, 0, RatZero)

\* C37: every call of calculate_pnl returns its record, which is then the
\* last entry of the PnL history, one longer than before.
C37_PnlAlwaysReturns ==
    [][(call'.fn = "calculate_pnl" /\ <<call, ret, pnl_history>>' # <<call, ret, pnl_history>>)
          => /\ ret'.status = "returned"
             /\ pnl_history' = Append(pnl_history, ret'.value)]_vars

\* C39: whether a sub-collection succeeds depends on its fetch alone: it
\* succeeds exactly when the fetch returned data, whatever became of the
\* sink write; an exchange with such a sub-collection reports success and is
\* counted in collections_completed when the round is tallied.
C39_WriteFailureSwallowed ==
    call.fn = "_collect_data_round" =>
        /\ \A e \in ExchangeNames, k \in Subs :
              sub[e][k] \in {"ok", "fail"} =>
                  (sub[e][k] = "ok" <=> ret.subs[e][k].fetch = "data")
        /\ \A e \in ExchangeNames :
              exTask[e] \in {"true", "false"} =>
                  (exTask[e] = "true" <=> \E k \in Subs : ret.subs[e][k].fetch = "data")
        /\ mainPc \in {"pnl", "sleep"} =>
              stats.collections_completed
                  = Cardinality({e \in Range(exchanges) :
                                    \E k \in Subs : ret.subs[e][k].fetch = "data"})

\* The round of one adapter is over: its balances were fetched and their
\* write failed, its three other fetches failed, and it was counted as
\* completed.
C39_Witness ==
    /\ call.fn = "_collect_data_round"
    /\ mainPc = "sleep"
    /\ exchanges = <<"binance">>
    /\ ret.subs["binance"]["balance"] = [fetch |-> "data", write |-> "error"]
    /\ \A k \in Subs \ {"balance"} : ret.subs["binance"][k].fetch = "error"
    /\ stats = [collections_completed |-> 1, collections_failed |-> 0]

====
